---- MODULE Spec2Model ----
(***************************************************************************)
(* Outbound reminder-call lifecycle of hume_webhook.py: the outbound_calls *)
(* table, the cron dispatcher (process_pending_outbound_calls), the Twilio *)
(* status callback, the Hume chat-ended webhook, the booking and           *)
(* reschedule tools and the get_reminder_context fallback lookup.          *)
(*                                                                         *)
(* Every HTTP request is served independently (serverless deployment, no   *)
(* lock, no transaction), so a dispatcher pass is modelled step by step:   *)
(* reading the batch, placing one call, writing the outcome.               *)
(***************************************************************************)
EXTENDS Integers, FiniteSets, Sequences, TLC

\* ------------------------------------------------------------------ bounds
\* Number of make_outbound_call invocations in one behaviour: of SpecRetry
\* (one appointment, overlapping passes) and of Spec (two appointments).
MaxCalls == 3
MaxCallsWide == 2
\* SpecDue: number of make_outbound_call invocations, and the latest instant
\* at which a pass runs.
MaxCallsDue == 2
\* SpecSolo: invocations of make_outbound_call, one more than the retry limit.
MaxCallsSolo == 4
\* SpecFaults: invocations of make_outbound_call.
MaxCallsFaults == 2
\* SpecLive: invocations of make_outbound_call, and the hour at which a
\* behaviour starts (2025-03-10T10:00:00Z; it ends at MaxInstant).
MaxCallsLive == 4
FirstInstantLive == 34
MaxInstant == 47

\* ------------------------------------------------------------- value sets
Appts == {1, 2}
Dispatchers == {1, 2}
ApptTimes == {100, 101}
\* SpecDue: the appointment of 2025-03-10T14:00:00Z, as an instant.
DueTimes == {38}
\* start_time of a newly booked appointment; a reschedule may pick any of ApptTimes.
BookedTime == CHOOSE t \in ApptTimes : \A u \in ApptTimes : t <= u
\* What a loop iteration of the dispatcher may compute from datetime.now(tz):
\* the hours until the appointment and the local wall-clock hour.
HoursUntilSet == {-1, 0, 24, 25}
HourSet == {8, 9, 18, 19}
CallStatuses == {"answered", "completed", "busy", "no-answer", "failed", "canceled", "ringing"}
FailureStatuses == {"busy", "no-answer", "failed", "canceled"}
HandledStatuses == {"answered", "completed"} \cup FailureStatuses
Configs == {"outbound", "inbound"}
TerminalStatuses == {"completed", "failed", "cancelled"}
NoSid == <<>>

VARIABLES
    env,        \* module-level configuration read at import time
    calls,      \* the outbound_calls table, one row per appointment_id
    pass,       \* per dispatcher request: position, batch read, call just placed
    ringing,    \* per appointment: calls placed at the provider, not yet answered or ended
    talking,    \* per appointment: calls answered, not yet ended
    invoked,    \* per appointment: number of make_outbound_call invocations so far
    last,       \* the latest operation that placed a call or wrote to the store
    evaluated,  \* the instant and the times of the dispatcher's latest due check (SpecDue)
    reply,      \* the HTTP response to the latest webhook request (SpecFaults)
    clock       \* the current hour, an instant of Instants (SpecLive)

vars == <<env, calls, pass, ringing, talking, invoked, last, evaluated, reply, clock>>

\* ------------------------------------------------------------------ store
NoRow ==
    [present |-> FALSE, status |-> "none", call_sid |-> NoSid, call_attempts |-> 0,
     appointment_time |-> 0, last_attempt_at |-> 0, updated_at |-> 0]

\* Timestamps.  The code only ever sorts rows by one timestamp column, so a
\* timestamp is kept as its rank within its column: 0 is NULL, Now is later
\* than every timestamp written so far, and Ranked closes the gaps that
\* overwriting a timestamp leaves.
Stamps(rows) ==
    {rows[a].last_attempt_at : a \in DOMAIN rows} \cup {rows[a].updated_at : a \in DOMAIN rows}

Now(rows) == 1 + CHOOSE m \in Stamps(rows) \cup {0} : \A v \in Stamps(rows) : v <= m

Rank(column, v) == IF v = 0 THEN 0 ELSE Cardinality({u \in column : 0 < u /\ u <= v})

Ranked(rows) ==
    [a \in DOMAIN rows |->
        [rows[a] EXCEPT
            !.last_attempt_at = Rank({rows[b].last_attempt_at : b \in DOMAIN rows}, @),
            !.updated_at = Rank({rows[b].updated_at : b \in DOMAIN rows}, @)]]

\* supabase .insert({... "status": "pending"}): the columns the insert does not
\* name (call_sid, call_attempts, last_attempt_at, updated_at) keep their defaults.
NewRow(t) ==
    [present |-> TRUE, status |-> "pending", call_sid |-> NoSid, call_attempts |-> 0,
     appointment_time |-> t, last_attempt_at |-> 0, updated_at |-> 0]

\* Variant of Update that inserts the row when none matches (an upsert).
Update_Upsert(rows, a, upd) ==
    IF a \in DOMAIN rows
    THEN [rows EXCEPT ![a] = [f \in DOMAIN rows[a] |->
                                 IF f = "present" THEN TRUE
                                 ELSE IF f \in DOMAIN upd THEN upd[f] ELSE rows[a][f]]]
    ELSE rows

\* supabase .update(upd).eq("appointment_id", a): every matching row gets the
\* named columns; no matching row, no change.
Update(rows, a, upd) ==
    IF a \in DOMAIN rows /\ rows[a].present
    THEN [rows EXCEPT ![a] = [f \in DOMAIN rows[a] |->
                                 IF f \in DOMAIN upd THEN upd[f] ELSE rows[a][f]]]
    ELSE rows

\* .select(...).eq("status", s)
WithStatus(rows, s) == {a \in DOMAIN rows : rows[a].present /\ rows[a].status = s}

\* Variant of MostRecent without the order: any row of the status.
MostRecent_Unordered(rows, s) == WithStatus(rows, s)

\* Variant of MostRecent with the order ascending: the oldest row first.
MostRecent_Ascending(rows, s) ==
    LET C == WithStatus(rows, s)
        nulls == {a \in C : rows[a].last_attempt_at = 0}
        dated == C \ nulls
        oldest == {a \in dated : \A b \in dated : rows[a].last_attempt_at <= rows[b].last_attempt_at}
    IN  nulls \cup oldest

\* .eq("status", s).order("last_attempt_at", desc=True).limit(1): the possible
\* first rows.  Rows with equal keys come in any order, and whether a NULL
\* last_attempt_at sorts first or last under desc depends on the client
\* library's null ordering, so both outcomes are kept.
MostRecent(rows, s) ==
    LET C == WithStatus(rows, s)
        nulls == {a \in C : rows[a].last_attempt_at = 0}
        dated == C \ nulls
        newest == {a \in dated : \A b \in dated : rows[b].last_attempt_at <= rows[a].last_attempt_at}
    IN  nulls \cup newest

\* --------------------------------------------------------------- dispatcher
\* Defaults of process_pending_outbound_calls(hours_before, calling_hours).
HoursBefore == 24
StartHour == 9
EndHour == 19
\* "failed" if call_record.get('call_attempts', 0) >= 2 else "pending"
DispatchFailLimit == 2
\* "failed" if current_attempts >= 3 else "pending"
CallbackFailLimit == 3

\* Instants are whole hours counted from 2025-03-09T00:00:00Z.  The timezone
\* is the column's default, America/New_York, whose clocks go from UTC-5 to
\* UTC-4 at 2025-03-09T07:00:00Z.
Instants == 0 .. MaxInstant

\* Variant of UtcOffset without daylight saving time.
UtcOffset_NoDst(t) == -5

UtcOffset(t) == IF t < 7 THEN -5 ELSE -4

\* datetime.now(tz) and appt_time.astimezone(tz): the wall clock of tz at t,
\* in hours from 2025-03-09T00:00 local.
Wall(t) == t + UtcOffset(t)

\* Variant of HoursUntil that takes the elapsed time between the instants.
HoursUntil_Elapsed(appt_time, now) == appt_time - now

\* (appt_local - now_local).total_seconds() / 3600.  Both datetimes carry the
\* same tzinfo object, and Python then subtracts the wall clocks without
\* looking at the UTC offsets.
HoursUntil(appt_time, now) == Wall(appt_time) - Wall(now)

\* now_local.hour
CurrentHour(now) == (Wall(now) + 24) % 24

NoEval == [appointment_time |-> 0, now |-> -1, hours |-> 0, hour |-> 0]

\* A response: the endpoint, the HTTP status code, and what the handler
\* reported in it.
Response(handler, code, note) == [handler |-> handler, code |-> code, note |-> note]

NoReply == Response("none", 0, "none")

\* Variants of Eligibility: the upper bound of the reminder window
\* exclusive, and no test mode.
Eligibility_ExclusiveBound(test_mode, hours_until_appt, current_hour) ==
    IF test_mode THEN "call"
    ELSE IF hours_until_appt >= HoursBefore \/ hours_until_appt < 0 THEN "not_due"
    ELSE IF current_hour < StartHour \/ current_hour >= EndHour THEN "outside_hours"
    ELSE "call"

Eligibility_NoTestMode(test_mode, hours_until_appt, current_hour) ==
    IF hours_until_appt > HoursBefore \/ hours_until_appt < 0 THEN "not_due"
    ELSE IF current_hour < StartHour \/ current_hour >= EndHour THEN "outside_hours"
    ELSE "call"

\* The time checks of one loop iteration: "call" falls through to
\* make_outbound_call, "not_due" is the first continue (not counted),
\* "outside_hours" the second (skipped += 1).
Eligibility(test_mode, hours_until_appt, current_hour) ==
    IF test_mode THEN "call"
    ELSE IF hours_until_appt > HoursBefore \/ hours_until_appt < 0 THEN "not_due"
    ELSE IF current_hour < StartHour \/ current_hour >= EndHour THEN "outside_hours"
    ELSE "call"

\* Variants of PlacementFailureStatus: the limit of the status callback in
\* place of the dispatcher's, and a strict comparison.
PlacementFailureStatus_CallbackLimit(n) == IF n >= CallbackFailLimit THEN "failed" ELSE "pending"

PlacementFailureStatus_Strict(n) == IF n > DispatchFailLimit THEN "failed" ELSE "pending"

\* Status written after make_outbound_call reported failure, from the
\* call_attempts of the record as read at the start of the pass.
PlacementFailureStatus(n) == IF n >= DispatchFailLimit THEN "failed" ELSE "pending"

\* Variant of SuccessUpdate that leaves call_sid out of the update.
SuccessUpdate_NoSid(rec, sid, t) ==
    [status |-> "calling", call_attempts |-> rec.call_attempts + 1,
     last_attempt_at |-> t, updated_at |-> t]

\* The update written after make_outbound_call succeeded.
SuccessUpdate(rec, sid, t) ==
    [status |-> "calling", call_sid |-> sid, call_attempts |-> rec.call_attempts + 1,
     last_attempt_at |-> t, updated_at |-> t]

\* The update written after make_outbound_call failed.
FailureUpdate(rec, t) ==
    [status |-> PlacementFailureStatus(rec.call_attempts),
     call_attempts |-> rec.call_attempts + 1,
     last_attempt_at |-> t, updated_at |-> t]

\* What the loop uses of a row of result.data.
Snapshot(rows, a) == [appointment_id |-> a, call_attempts |-> rows[a].call_attempts]

NoSnap == [appointment_id |-> 0, call_attempts |-> 0]
IdlePass == [pc |-> "idle", batch |-> {}, cur |-> NoSnap, result |-> "none", sid |-> NoSid]

\* What last keeps of an operation: its name, the appointment, the
\* call_attempts it read (the dispatcher's writes, the failure callback, the
\* reschedule tool; else 0) and the status the row had before it (the
\* "completed" callback and chat_ended; else "none").
L(op, a, n, was) == [op |-> op, a |-> a, n |-> n, was |-> was]

StatusOf(rows, a) == IF a \in DOMAIN rows /\ rows[a].present THEN rows[a].status ELSE "none"

\* The pass after the loop iteration for rec: the next iteration, or the
\* return of the counts once the batch is exhausted.
AfterRecord(p, rec) ==
    IF p.batch \ {rec} = {} THEN IdlePass
    ELSE [IdlePass EXCEPT !.pc = "loop", !.batch = p.batch \ {rec}]

\* Variant of AfterException in which the exception ends the pass.
AfterException_EndsPass(p, rec) == IdlePass

\* The pass after the loop iteration for rec raised: the per-record handler
\* counts the record as failed and the loop goes on with the next one.
AfterException(p, rec) == AfterRecord(p, rec)

\* Entry of a pass: the two client checks, then the read of the pending rows.
\* With a client missing, or no pending row, the pass returns at once.
DispatchRead(d) ==
    /\ pass[d].pc = "idle"
    /\ pass' = IF env.supabase /\ env.twilio /\ WithStatus(calls, "pending") # {}
               THEN [pass EXCEPT ![d] =
                       [IdlePass EXCEPT !.pc = "loop",
                                        !.batch = {Snapshot(calls, a) : a \in WithStatus(calls, "pending")}]]
               ELSE pass
    /\ UNCHANGED <<env, clock, reply, evaluated, calls, ringing, talking, invoked, last>>

Invocations == invoked[1] + invoked[2]

\* One loop iteration for rec up to and including make_outbound_call, with
\* the hours_until_appt and current_hour it computed.
EvalRecord(d, budget, rec, hours, hour) ==
    LET a == rec.appointment_id
        verdict == Eligibility(env.test_mode, hours, hour)
    IN  IF verdict # "call"
        THEN /\ pass' = [pass EXCEPT ![d] = AfterRecord(pass[d], rec)]
             /\ UNCHANGED <<ringing, invoked, last>>
        ELSE \E accepted \in BOOLEAN :
             /\ Invocations < budget
             /\ invoked' = [invoked EXCEPT ![a] = @ + 1]
             /\ ringing' = [ringing EXCEPT ![a] = IF accepted THEN @ + 1 ELSE @]
             /\ pass' = [pass EXCEPT ![d].pc = "placed", ![d].cur = rec,
                                     ![d].result = IF accepted THEN "ok" ELSE "err",
                                     ![d].sid = IF accepted THEN <<a, invoked'[a]>> ELSE NoSid]
             /\ last' = L(IF accepted THEN "placed" ELSE "place_failed", a, 0, "none")

\* One loop iteration, the times being whatever datetime.now(tz) makes them.
\* A record whose appointment_time or timezone cannot be read raises before
\* the time checks.
DispatchEval(d, budget) ==
    /\ pass[d].pc = "loop"
    /\ \E rec \in pass[d].batch, readable \in BOOLEAN, hours \in HoursUntilSet, hour \in HourSet :
         IF readable
         THEN EvalRecord(d, budget, rec, hours, hour)
         ELSE /\ pass' = [pass EXCEPT ![d] = AfterException(pass[d], rec)]
              /\ UNCHANGED <<ringing, invoked, last>>
    /\ UNCHANGED <<env, clock, reply, evaluated, calls, talking>>

\* One loop iteration at the instant now, the times computed from the row's
\* appointment_time as the loop computes them.
DispatchEvalAt(d, budget) ==
    /\ pass[d].pc = "loop"
    /\ \E rec \in pass[d].batch, now \in Instants :
         LET appt_time == calls[rec.appointment_id].appointment_time
             hours == HoursUntil(appt_time, now)
             hour == CurrentHour(now)
         IN  /\ EvalRecord(d, budget, rec, hours, hour)
             /\ evaluated' = [appointment_time |-> appt_time, now |-> now,
                              hours |-> hours, hour |-> hour]
    /\ UNCHANGED <<env, clock, reply, calls, talking>>

\* The store update after make_outbound_call; an exception of the store is
\* caught by the per-record handler and the row is left as it was.
DispatchWrite(d) ==
    /\ pass[d].pc = "placed"
    /\ \E stored \in BOOLEAN :
         LET rec == pass[d].cur
             a == rec.appointment_id
             t == Now(calls)
             upd == IF pass[d].result = "ok" THEN SuccessUpdate(rec, pass[d].sid, t)
                    ELSE FailureUpdate(rec, t)
         IN  /\ calls' = IF stored THEN Ranked(Update(calls, a, upd)) ELSE calls
             /\ last' = L(IF ~stored THEN "write_error"
                          ELSE IF pass[d].result = "ok" THEN "write_calling" ELSE "write_failure",
                          a, rec.call_attempts, "none")
             /\ pass' = [pass EXCEPT ![d] = IF stored THEN AfterRecord(pass[d], rec)
                                                       ELSE AfterException(pass[d], rec)]
    /\ UNCHANGED <<env, clock, reply, evaluated, ringing, talking, invoked>>

\* ------------------------------------------------- Twilio status callback
\* Variant of CallbackFailureStatus with the dispatcher's limit.
CallbackFailureStatus_DispatchLimit(current_attempts) ==
    IF current_attempts >= DispatchFailLimit THEN "failed" ELSE "pending"

\* new_status of the busy / no-answer / failed / canceled branch, from the
\* call_attempts just read from the store.
CallbackFailureStatus(current_attempts) ==
    IF current_attempts >= CallbackFailLimit THEN "failed" ELSE "pending"

\* result.data[0].get('call_attempts', 0) of the select by appointment_id;
\* no row, current_attempts stays 0.
CurrentAttempts(rows, a) ==
    IF a \in DOMAIN rows /\ rows[a].present THEN rows[a].call_attempts ELSE 0

\* Variant of StatusCallbackEffect that handles "completed" in the branch of
\* the failure statuses.
StatusCallbackEffect_CompletedRetries(rows, a, cs, t) ==
    IF a = 0 THEN rows
    ELSE IF cs = "answered" THEN Update(rows, a, [status |-> "in_progress", updated_at |-> t])
    ELSE IF cs \in FailureStatuses \cup {"completed"}
         THEN Update(rows, a, [status |-> CallbackFailureStatus(CurrentAttempts(rows, a)),
                               updated_at |-> t])
    ELSE rows

\* The table after twilio_status_callback has handled (appointment_id, CallStatus)
\* with the store configured; appointment_id 0 stands for a missing parameter.
StatusCallbackEffect(rows, a, cs, t) ==
    IF a = 0 THEN rows
    ELSE IF cs = "answered" THEN Update(rows, a, [status |-> "in_progress", updated_at |-> t])
    ELSE IF cs = "completed" THEN Update(rows, a, [status |-> "completed", updated_at |-> t])
    ELSE IF cs \in FailureStatuses
         THEN Update(rows, a, [status |-> CallbackFailureStatus(CurrentAttempts(rows, a)),
                               updated_at |-> t])
    ELSE rows

\* Twilio reports on a call the dispatcher placed for appointment a (the
\* appointment_id travels on the statusCallback URL): "answered" while it
\* rings, "completed" once answered, a failure status while it rings, or a
\* status the handler has no branch for.
CallProgress(a, cs) ==
    \/ /\ cs = "answered" /\ ringing[a] > 0
       /\ ringing' = [ringing EXCEPT ![a] = @ - 1]
       /\ talking' = [talking EXCEPT ![a] = @ + 1]
    \/ /\ cs = "completed" /\ talking[a] > 0
       /\ talking' = [talking EXCEPT ![a] = @ - 1]
       /\ UNCHANGED ringing
    \/ /\ cs \in FailureStatuses /\ ringing[a] > 0
       /\ ringing' = [ringing EXCEPT ![a] = @ - 1]
       /\ UNCHANGED talking
    \/ /\ cs \notin HandledStatuses
       /\ ringing[a] + talking[a] > 0
       /\ UNCHANGED <<ringing, talking>>

\* twilio_status_callback when neither the request nor the store raises.
TwilioStatus(a, cs) ==
    /\ CallProgress(a, cs)
    /\ calls' = IF env.supabase THEN Ranked(StatusCallbackEffect(calls, a, cs, Now(calls))) ELSE calls
    /\ last' = IF env.supabase /\ cs \in HandledStatuses
               THEN L(IF cs \in FailureStatuses THEN "twilio_failure" ELSE cs, a,
                      IF cs \in FailureStatuses THEN CurrentAttempts(calls, a) ELSE 0,
                      IF cs = "completed" THEN StatusOf(calls, a) ELSE "none")
               ELSE last
    /\ UNCHANGED <<env, clock, reply, evaluated, pass, invoked>>

\* A status callback without appointment_id: the calls of /test-outbound-call
\* are placed without one.  The handler returns before touching the store.
TwilioNoAppointment(cs) ==
    /\ calls' = IF env.supabase THEN StatusCallbackEffect(calls, 0, cs, Now(calls)) ELSE calls
    /\ UNCHANGED <<env, clock, reply, evaluated, pass, ringing, talking, invoked, last>>

\* ------------------------------------------------------ Hume chat_ended
CompletedUpdate(t) == [status |-> "completed", updated_at |-> t]

\* The table after the chat_ended branch selected row pick (0: no row).
ChatEndedEffect(rows, pick, t) ==
    IF pick = 0 THEN rows ELSE Update(rows, pick, CompletedUpdate(t))

\* Variant of ChatEndedPicks that does not look at the config of the chat.
ChatEndedPicks_AnyConfig(rows, cfg, supabase) ==
    IF supabase /\ MostRecent(rows, "in_progress") # {}
    THEN MostRecent(rows, "in_progress")
    ELSE {0}

\* The rows the chat_ended branch may select: none unless the event carries
\* the outbound config and the store is configured.
ChatEndedPicks(rows, cfg, supabase) ==
    IF cfg = "outbound" /\ supabase /\ MostRecent(rows, "in_progress") # {}
    THEN MostRecent(rows, "in_progress")
    ELSE {0}

\* A chat of either config ends.  Outbound-config chats are started by the
\* dispatcher's calls and by /test-outbound-call, so one may end at any time.
ChatEnded(cfg) ==
    /\ \E pick \in ChatEndedPicks(calls, cfg, env.supabase) :
         /\ calls' = Ranked(ChatEndedEffect(calls, pick, Now(calls)))
         /\ last' = IF pick = 0 THEN last ELSE L("chat_ended", pick, 0, StatusOf(calls, pick))
    /\ UNCHANGED <<env, clock, reply, evaluated, pass, ringing, talking, invoked>>

\* ---------------------------------------------------------------- tools
\* book_appointment succeeded for a new appointment whose patient has a
\* phone number: the reminder row is inserted.
Book(a, t) ==
    /\ ~calls[a].present
    /\ calls' = IF env.supabase THEN [calls EXCEPT ![a] = NewRow(t)] ELSE calls
    /\ last' = IF env.supabase THEN L("book", a, 0, "none") ELSE last
    /\ UNCHANGED <<env, clock, reply, evaluated, pass, ringing, talking, invoked>>

\* Variants of RescheduleEffect: one that leaves completed, failed and
\* cancelled rows alone, one that starts the attempts over.
RescheduleEffect_NonTerminalOnly(rows, a, cancelled, new_time, t) ==
    IF StatusOf(rows, a) \in TerminalStatuses THEN rows
    ELSE IF cancelled
    THEN Update(rows, a, [status |-> "cancelled", updated_at |-> t])
    ELSE Update(rows, a, [appointment_time |-> new_time, status |-> "pending", updated_at |-> t])

RescheduleEffect_ResetsAttempts(rows, a, cancelled, new_time, t) ==
    IF cancelled
    THEN Update(rows, a, [status |-> "cancelled", updated_at |-> t])
    ELSE Update(rows, a, [appointment_time |-> new_time, status |-> "pending",
                          call_attempts |-> 0, updated_at |-> t])

\* The table after a successful reschedule_appointment call.
RescheduleEffect(rows, a, cancelled, new_time, t) ==
    IF cancelled
    THEN Update(rows, a, [status |-> "cancelled", updated_at |-> t])
    ELSE Update(rows, a, [appointment_time |-> new_time, status |-> "pending", updated_at |-> t])

\* reschedule_appointment tool for any appointment of the practice; the
\* scheduling API may refuse, and then the table is not touched.  An
\* appointment booked elsewhere has no reminder row: the update matches nothing.
Reschedule(a, cancelled, new_time) ==
    /\ \E success \in BOOLEAN :
         /\ calls' = IF success /\ env.supabase
                     THEN Ranked(RescheduleEffect(calls, a, cancelled, new_time, Now(calls)))
                     ELSE calls
         /\ last' = IF success /\ env.supabase /\ calls[a].present
                    THEN L(IF cancelled THEN "cancel" ELSE "reschedule", a, calls[a].call_attempts, "none")
                    ELSE last
    /\ UNCHANGED <<env, clock, reply, evaluated, pass, ringing, talking, invoked>>

\* Variant of FallbackLookup that looks for a calling row first.
FallbackLookup_CallingFirst(rows) ==
    IF MostRecent(rows, "calling") # {} THEN MostRecent(rows, "calling")
    ELSE MostRecent(rows, "in_progress")

\* The rows the lookup of handle_get_reminder_context_tool may return when no
\* custom_session_id came with the event: in_progress first, then calling.
FallbackLookup(rows) ==
    IF MostRecent(rows, "in_progress") # {} THEN MostRecent(rows, "in_progress")
    ELSE MostRecent(rows, "calling")

\* The appointment_id the tool may go on with; 0: none, the fallback greeting.
ContextAppointment(rows, custom_session_id, supabase) ==
    IF custom_session_id # 0 THEN {custom_session_id}
    ELSE IF supabase /\ FallbackLookup(rows) # {} THEN FallbackLookup(rows)
    ELSE {0}

\* get_reminder_context tool call; custom_session_id 0 stands for none.  The
\* tool reads the store and answers the chat; it writes nothing.
GetReminderContext(custom_session_id) ==
    /\ ContextAppointment(calls, custom_session_id, env.supabase) # {}
    /\ UNCHANGED vars

\* ------------------------------------------- handlers and their responses
\* What the environment may do to a status callback: nothing, request.form()
\* raises, or the store raises on the first operation the handler makes.
CallbackFaults == {"none", "form", "store"}

\* What control_plane_client.send may do: succeed, answer 400 chat_unavailable,
\* or fail in any other way.
SendOutcomes == {"ok", "chat_unavailable", "error"}

Tools == {"get_reminder_context", "book_appointment", "reschedule_appointment", "unknown_tool"}

\* Variants of TwilioReply: one whose handler lets an exception through, one
\* without the check of the store client.
TwilioReply_Propagates(a, cs, supabase, fault) ==
    IF fault = "form" THEN Response("twilio-status", 500, "form_error")
    ELSE IF a = 0 THEN Response("twilio-status", 200, "no appointment_id")
    ELSE IF ~supabase THEN Response("twilio-status", 200, "supabase unavailable")
    ELSE IF fault = "store" /\ cs \in HandledStatuses
         THEN Response("twilio-status", 500, "store_error")
    ELSE Response("twilio-status", 200, "ok")

TwilioReply_NoStoreCheck(a, cs, supabase, fault) ==
    IF fault = "form" THEN Response("twilio-status", 200, "form_error")
    ELSE IF a = 0 THEN Response("twilio-status", 200, "no appointment_id")
    ELSE IF (~supabase \/ fault = "store") /\ cs \in HandledStatuses
         THEN Response("twilio-status", 200, "store_error")
    ELSE Response("twilio-status", 200, "ok")

\* The response of twilio_status_callback: every return of the handler, the
\* one of its except clause included, is a JSONResponse with the default
\* status code.
TwilioReply(a, cs, supabase, fault) ==
    IF fault = "form" THEN Response("twilio-status", 200, "form_error")
    ELSE IF a = 0 THEN Response("twilio-status", 200, "no appointment_id")
    ELSE IF ~supabase THEN Response("twilio-status", 200, "supabase unavailable")
    ELSE IF fault = "store" /\ cs \in HandledStatuses
         THEN Response("twilio-status", 200, "store_error")
    ELSE Response("twilio-status", 200, "ok")

\* Variant of CallbackTable that handles every other CallStatus as a failure.
CallbackTable_UnknownIsFailure(rows, a, cs, supabase, fault, t) ==
    IF supabase /\ fault = "none"
    THEN StatusCallbackEffect(rows, a, IF cs \in HandledStatuses THEN cs ELSE "failed", t)
    ELSE rows

\* The table after twilio_status_callback: the handler reaches its store
\* operations only with the form read, an appointment_id and a store client,
\* and an operation that raises writes nothing.
CallbackTable(rows, a, cs, supabase, fault, t) ==
    IF supabase /\ fault = "none" THEN StatusCallbackEffect(rows, a, cs, t) ELSE rows

\* twilio_status_callback, whole: a callback for a call in flight of
\* appointment a, or one without appointment_id (a = 0), under any fault.
TwilioCallback(a, cs) ==
    /\ IF a = 0 THEN UNCHANGED <<ringing, talking>> ELSE CallProgress(a, cs)
    /\ \E fault \in CallbackFaults :
         /\ calls' = Ranked(CallbackTable(calls, a, cs, env.supabase, fault, Now(calls)))
         /\ reply' = TwilioReply(a, cs, env.supabase, fault)
         /\ last' = IF a = 0 \/ cs \notin HandledStatuses
                    THEN L("twilio_ignored", a, 0, "none")
                    ELSE IF env.supabase /\ fault = "none"
                    THEN L(IF cs \in FailureStatuses THEN "twilio_failure" ELSE cs, a,
                           IF cs \in FailureStatuses THEN CurrentAttempts(calls, a) ELSE 0,
                           IF cs = "completed" THEN StatusOf(calls, a) ELSE "none")
                    ELSE last
    /\ UNCHANGED <<env, clock, evaluated, pass, invoked>>

\* safe_send_to_control_plane: True, False for a chat that is gone, and any
\* other error raised again.
SafeSend(outcome) ==
    IF outcome = "ok" THEN "sent"
    ELSE IF outcome = "chat_unavailable" THEN "skipped"
    ELSE "raised"

\* A tool handler: its body ends with the send of the tool response; anything
\* raised in the body, by that send included, reaches the except clause, which
\* sends a tool error with nothing around it.
ToolHandlerOutcome(body_raises, send1, send2) ==
    IF ~body_raises /\ SafeSend(send1) = "sent" THEN "tool_response"
    ELSE IF ~body_raises /\ SafeSend(send1) = "skipped" THEN "not_sent"
    ELSE IF SafeSend(send2) = "sent" THEN "tool_error"
    ELSE IF SafeSend(send2) = "skipped" THEN "not_sent"
    ELSE "raised"

\* The branch of hume_webhook_handler for a tool without handler: one send.
UnknownToolOutcome(send1) ==
    IF SafeSend(send1) = "sent" THEN "tool_error"
    ELSE IF SafeSend(send1) = "skipped" THEN "not_sent"
    ELSE "raised"

\* The ways the branch of a tool call event may end, over what the body of the
\* handler and the control plane may do.
ToolOutcomes(tool) ==
    IF tool = "unknown_tool" THEN {UnknownToolOutcome(send1) : send1 \in SendOutcomes}
    ELSE {ToolHandlerOutcome(body_raises, send1, send2) :
              body_raises \in BOOLEAN, send1 \in SendOutcomes, send2 \in SendOutcomes}

\* The response of hume_webhook_handler: {"status": "ok"} at its end, or the
\* framework's 500 for an exception that leaves the handler.
HumeReply(outcome) ==
    IF outcome = "raised" THEN Response("hume-webhook", 500, "control_plane_error")
    ELSE Response("hume-webhook", 200, outcome)

\* What get_reminder_context returns for appointment a.
ReminderContext(rows, a, supabase, store_ok) ==
    IF ~supabase THEN "Database not available"
    ELSE IF ~store_ok THEN "error"
    ELSE IF a \in DOMAIN rows /\ rows[a].present THEN "success"
    ELSE "not found"

\* chat_started: the session is logged; the logging helper returns early
\* without store and catches everything.
HumeChatStarted ==
    /\ reply' = HumeReply("none")
    /\ UNCHANGED <<env, clock, calls, pass, ringing, talking, invoked, last, evaluated>>

\* chat_ended, whole: the store operations may raise, which the branch catches.
HumeChatEnded(cfg) ==
    /\ \E pick \in ChatEndedPicks(calls, cfg, env.supabase), stored \in BOOLEAN :
         /\ calls' = IF stored THEN Ranked(ChatEndedEffect(calls, pick, Now(calls))) ELSE calls
         /\ last' = IF pick = 0 \/ ~stored THEN last
                    ELSE L("chat_ended", pick, 0, StatusOf(calls, pick))
    /\ reply' = HumeReply("none")
    /\ UNCHANGED <<env, clock, evaluated, pass, ringing, talking, invoked>>

\* The table after the store operation of a tool, when it is reached and the
\* store accepts it.
ToolTable(rows, tool, a, cancelled, t) ==
    IF tool = "book_appointment" THEN [rows EXCEPT ![a] = NewRow(BookedTime)]
    ELSE IF tool = "reschedule_appointment"
    THEN Ranked(RescheduleEffect(rows, a, cancelled, BookedTime, t))
    ELSE rows

\* A tool call event, whole: the handler of the tool with its store operation
\* (reached or not, accepted or not: written) and its sends.  a is the
\* appointment of the tool, custom_session_id for get_reminder_context.
HumeToolCall(tool, a) ==
    /\ tool \in {"book_appointment", "reschedule_appointment"} => a # 0
    /\ tool = "book_appointment" => ~calls[a].present
    /\ tool = "get_reminder_context" => ContextAppointment(calls, a, env.supabase) # {}
    /\ \E written \in BOOLEAN, cancelled \in BOOLEAN :
         /\ calls' = IF written /\ env.supabase THEN ToolTable(calls, tool, a, cancelled, Now(calls))
                     ELSE calls
         /\ last' = IF ~(written /\ env.supabase) THEN last
                    ELSE IF tool = "book_appointment" THEN L("book", a, 0, "none")
                    ELSE IF tool = "reschedule_appointment" /\ calls[a].present
                    THEN L(IF cancelled THEN "cancel" ELSE "reschedule", a,
                           calls[a].call_attempts, "none")
                    ELSE last
    /\ \E outcome \in ToolOutcomes(tool) : reply' = HumeReply(outcome)
    /\ UNCHANGED <<env, clock, evaluated, pass, ringing, talking, invoked>>

\* ------------------------------------------------------------ specification
Init ==
    /\ env \in [test_mode : {FALSE}, supabase : BOOLEAN, twilio : BOOLEAN]
    /\ calls = [a \in Appts |-> NoRow]
    /\ pass = [d \in Dispatchers |-> IdlePass]
    /\ ringing = [a \in Appts |-> 0]
    /\ talking = [a \in Appts |-> 0]
    /\ invoked = [a \in Appts |-> 0]
    /\ last = L("init", 0, 0, "none")
    /\ evaluated = NoEval
    /\ reply = NoReply
    /\ clock = 0

\* The handlers that run whenever their request arrives; a reschedule moves
\* the appointment to one of times.
Requests(times) ==
    \/ \E a \in Appts, cs \in CallStatuses : TwilioStatus(a, cs)
    \/ \E cs \in CallStatuses : TwilioNoAppointment(cs)
    \/ \E cfg \in Configs : ChatEnded(cfg)
    \/ \E a \in Appts, c \in BOOLEAN, t \in times : Reschedule(a, c, t)
    \/ \E s \in Appts \cup {0} : GetReminderContext(s)

\* Spec: two appointments, dispatcher passes one at a time, the store and the
\* telephony client configured or not; a reschedule keeps the start time.
Next ==
    \/ DispatchRead(1)
    \/ DispatchEval(1, MaxCallsWide)
    \/ DispatchWrite(1)
    \/ \E a \in Appts : Book(a, BookedTime)
    \/ Requests({BookedTime})

Spec == Init /\ [][Next]_vars

\* SpecRetry: one appointment, dispatcher passes that may overlap, everything
\* configured; a reschedule may move the appointment.
InitRetry ==
    /\ Init
    /\ env = [test_mode |-> FALSE, supabase |-> TRUE, twilio |-> TRUE]

NextRetry ==
    \/ \E d \in Dispatchers : DispatchRead(d)
    \/ \E d \in Dispatchers : DispatchEval(d, MaxCalls)
    \/ \E d \in Dispatchers : DispatchWrite(d)
    \/ Book(1, BookedTime)
    \/ Requests(ApptTimes)

SpecRetry == InitRetry /\ [][NextRetry]_vars

\* SpecDue: one appointment at 2025-03-10T14:00:00Z, passes one at a time at
\* any instant of 2025-03-09 and 2025-03-10 UTC, test mode on or off.
InitDue ==
    /\ env \in [test_mode : BOOLEAN, supabase : {TRUE}, twilio : {TRUE}]
    /\ calls = [a \in Appts |-> NoRow]
    /\ pass = [d \in Dispatchers |-> IdlePass]
    /\ ringing = [a \in Appts |-> 0]
    /\ talking = [a \in Appts |-> 0]
    /\ invoked = [a \in Appts |-> 0]
    /\ last = L("init", 0, 0, "none")
    /\ evaluated = NoEval
    /\ reply = NoReply
    /\ clock = 0

NextDue ==
    \/ DispatchRead(1)
    \/ DispatchEvalAt(1, MaxCallsDue)
    \/ DispatchWrite(1)
    \/ \E t \in DueTimes : Book(1, t)
    \/ \E t \in DueTimes : Requests({t})

SpecDue == InitDue /\ [][NextDue]_vars

\* SpecSolo: one appointment, dispatcher passes one at a time, everything
\* configured, and no reschedule_appointment call.
InitSolo == InitRetry

NextSolo ==
    \/ DispatchRead(1)
    \/ DispatchEval(1, MaxCallsSolo)
    \/ DispatchWrite(1)
    \/ Book(1, BookedTime)
    \/ \E cs \in CallStatuses : TwilioStatus(1, cs)
    \/ \E cs \in CallStatuses : TwilioNoAppointment(cs)
    \/ \E cfg \in Configs : ChatEnded(cfg)
    \/ \E s \in {0, 1} : GetReminderContext(s)

SpecSolo == InitSolo /\ [][NextSolo]_vars

\* The service is started again, with or without the settings of the store:
\* the clients are built at import, the requests being served are gone, the
\* table and the calls in flight stay.
Restart ==
    /\ \E supabase \in BOOLEAN : env' = [env EXCEPT !.supabase = supabase]
    /\ pass' = [d \in Dispatchers |-> IdlePass]
    /\ reply' = NoReply
    /\ UNCHANGED <<calls, ringing, talking, invoked, last, evaluated, clock>>

\* SpecFaults: one appointment, passes one at a time, the store configured
\* or not at each start; every request is served under any fault and answers.
InitFaults ==
    /\ Init
    /\ env.twilio

NextFaults ==
    \/ DispatchRead(1)
    \/ DispatchEval(1, MaxCallsFaults)
    \/ DispatchWrite(1)
    \/ \E a \in {0, 1}, cs \in CallStatuses : TwilioCallback(a, cs)
    \/ HumeChatStarted
    \/ \E cfg \in Configs : HumeChatEnded(cfg)
    \/ \E tool \in Tools, a \in {0, 1} : HumeToolCall(tool, a)
    \/ Restart

SpecFaults == InitFaults /\ [][NextFaults]_vars

\* SpecLive: one appointment at 2025-03-10T14:00:00Z, booked before it
\* starts; time passes hour by hour.  The assumptions favour the lifecycle:
\* the cron runs a pass in every hour in which a row is pending, no store
\* operation fails, every call placed gets its callbacks, and nobody
\* reschedules.
InitLive ==
    /\ env = [test_mode |-> FALSE, supabase |-> TRUE, twilio |-> TRUE]
    /\ calls = [a \in Appts |-> NoRow]
    /\ pass = [d \in Dispatchers |-> IdlePass]
    /\ ringing = [a \in Appts |-> 0]
    /\ talking = [a \in Appts |-> 0]
    /\ invoked = [a \in Appts |-> 0]
    /\ last = L("init", 0, 0, "none")
    /\ evaluated = NoEval
    /\ reply = NoReply
    /\ clock = FirstInstantLive

\* An hour passes, once the pass of this hour has looked at the pending rows.
Tick ==
    /\ clock < MaxInstant
    /\ pass[1].pc = "idle"
    /\ WithStatus(calls, "pending") # {} => evaluated.now = clock
    /\ clock' = clock + 1
    /\ UNCHANGED <<env, calls, pass, ringing, talking, invoked, last, evaluated, reply>>

\* book_appointment for an appointment that has not started yet.
BookAhead(a, t) ==
    /\ HoursUntil(t, clock) > 0
    /\ Book(a, t)

\* One loop iteration of a pass that runs now.
DispatchEvalNow(d, budget) ==
    /\ DispatchEvalAt(d, budget)
    /\ evaluated'.now = clock

\* The store update after make_outbound_call, accepted by the store.
DispatchWriteStored(d) ==
    /\ DispatchWrite(d)
    /\ last'.op # "write_error"

\* The callbacks Twilio was asked for (status_callback_event), or a failure.
CallReported(a) == \E cs \in HandledStatuses : TwilioStatus(a, cs)

NextLive ==
    \/ Tick
    \/ \E t \in DueTimes : BookAhead(1, t)
    \/ DispatchRead(1)
    \/ DispatchEvalNow(1, MaxCallsLive)
    \/ DispatchWriteStored(1)
    \/ CallReported(1)
    \/ \E cfg \in Configs : ChatEnded(cfg)

SpecLive ==
    /\ InitLive /\ [][NextLive]_vars
    /\ WF_vars(Tick)
    /\ WF_vars(DispatchRead(1))
    /\ WF_vars(DispatchEvalNow(1, MaxCallsLive))
    /\ WF_vars(DispatchWriteStored(1))
    /\ WF_vars(CallReported(1))

\* ------------------------------------------------------------------ claims
\* The steps of a dispatcher pass, of a Twilio callback and of chat_ended
\* that wrote to the store, as last names them.
AutomaticOps == {"write_calling", "write_failure", "answered", "completed", "twilio_failure", "chat_ended"}

\* C1: once a row's status is completed, failed or cancelled, no dispatcher
\* write, Twilio status callback or chat_ended event changes that status.
C1_TerminalAbsorbing ==
    [][\A a \in Appts :
          (calls[a].status \in TerminalStatuses /\ last'.op \in AutomaticOps)
              => calls'[a].status = calls[a].status]_vars

\* C2 as stated: after the dispatcher's write for a failed placement of a row
\* read with call_attempts n, the status is pending if n < 3, failed if n >= 3.
C2_FailureLimitThree ==
    last.op = "write_failure" =>
        calls[last.a].status = (IF last.n < 3 THEN "pending" ELSE "failed")

\* C2 amended: after the dispatcher's write for a failed placement of a row
\* read with call_attempts n, the status is pending if n < 2, failed if n >= 2.
C2_FailureLimitTwo ==
    last.op = "write_failure" =>
        calls[last.a].status = (IF last.n < 2 THEN "pending" ELSE "failed")

C2_Witness ==
    /\ last.op = "write_failure"
    /\ last.n = 2
    /\ calls[last.a].status = "failed"

\* C3: a placement failure for a row read with call_attempts = 2 writes
\* call_attempts = 3 and status = failed.
C3_ThirdFailure ==
    (last.op = "write_failure" /\ last.n = 2) =>
        (calls[last.a].call_attempts = 3 /\ calls[last.a].status = "failed")

C3_Witness ==
    /\ last.op = "write_failure"
    /\ last.n = 2
    /\ calls[last.a].call_attempts = 3

\* C4: the step of a pass that follows make_outbound_call leaves the row's
\* call_attempts exactly 1 greater than it was, whether the provider
\* accepted the call or not, also when passes overlap or the store fails.
C4_EveryAttemptCounted ==
    [][\A d \in Dispatchers :
          (pass[d].pc = "placed" /\ pass'[d].pc # "placed")
              => calls'[pass[d].cur.appointment_id].call_attempts
                     = calls[pass[d].cur.appointment_id].call_attempts + 1]_vars

\* C5: no step decreases the call_attempts of a row.
C5_AttemptsNeverDecrease ==
    [][\A a \in Appts : calls'[a].call_attempts >= calls[a].call_attempts]_vars

\* C6: a pending row (new, returned to pending by a failure callback, or
\* reset by a reschedule) has no call_sid.
C6_PendingHasNoSid ==
    \A a \in Appts :
        (calls[a].present /\ calls[a].status = "pending") => calls[a].call_sid = NoSid

C8_FailureCallback ==
    last.op = "twilio_failure" =>
        /\ calls[last.a].status = (IF last.n >= 3 THEN "failed" ELSE "pending")
        /\ calls[last.a].call_attempts = last.n

C8_Witness ==
    /\ last.op = "twilio_failure"
    /\ last.n = 3
    /\ calls[last.a].status = "failed"

C10_CompletedIdempotent ==
    /\ \A a \in Appts :
         LET once == Ranked(StatusCallbackEffect(calls, a, "completed", Now(calls)))
             twice == Ranked(StatusCallbackEffect(once, a, "completed", Now(once)))
         IN  /\ \A b \in Appts : calls[b].status = "completed" => once[b].status = "completed"
             /\ \A b \in Appts : twice[b].status = once[b].status
    /\ \A p \in ChatEndedPicks(calls, "outbound", TRUE) :
         LET once == Ranked(ChatEndedEffect(calls, p, Now(calls)))
         IN  /\ \A b \in Appts : calls[b].status = "completed" => once[b].status = "completed"
             /\ \A q \in ChatEndedPicks(once, "outbound", TRUE) :
                  LET twice == Ranked(ChatEndedEffect(once, q, Now(once)))
                  IN  p # 0 => twice[p].status = once[p].status

C10_Witness ==
    /\ last.op = "completed"
    /\ last.was = "completed"
    /\ calls[last.a].status = "completed"

C12_CancelAlwaysCancels ==
    /\ last.op = "cancel" => calls[last.a].status = "cancelled"
    /\ \A a \in Appts, t \in ApptTimes :
         calls[a].present =>
             RescheduleEffect(calls, a, TRUE, t, Now(calls))[a].status = "cancelled"

C12_Witness ==
    /\ last.op = "cancel"
    /\ calls[last.a].status = "cancelled"
    /\ calls[last.a].call_sid # NoSid

\* C13: a successful reschedule to a new time of a pending, calling or
\* in_progress row sets status pending and appointment_time to the new time,
\* keeps call_attempts, and neither adds nor removes a row.
C13_RescheduleInPlace ==
    /\ last.op = "reschedule" =>
          /\ calls[last.a].status = "pending"
          /\ calls[last.a].call_attempts = last.n
    /\ \A a \in Appts, t \in ApptTimes :
         LET after == RescheduleEffect(calls, a, FALSE, t, Now(calls)) IN
         (calls[a].present /\ calls[a].status \in {"pending", "calling", "in_progress"}) =>
             /\ after[a].status = "pending"
             /\ after[a].appointment_time = t
             /\ after[a].call_attempts = calls[a].call_attempts
             /\ \A b \in Appts : after[b].present = calls[b].present
             /\ \A b \in Appts \ {a} : after[b] = calls[b]

C13_Witness ==
    /\ last.op = "reschedule"
    /\ last.n > 0
    /\ calls[last.a].status = "pending"
    /\ calls[last.a].call_attempts = last.n
    /\ calls[last.a].appointment_time # BookedTime

DueCheckStep == pass[1].pc = "loop" /\ pass'[1] # pass[1]

\* C15: with test mode off, a pass reads exactly the pending rows, and a
\* loop iteration invokes make_outbound_call iff 0 <= hours_until_appt <=
\* hours_before and start_hour <= current_hour < end_hour; if not, no call is
\* placed; and the iteration itself writes no row.
C15_DueIffInWindow ==
    [][/\ (pass[1].pc = "idle" /\ pass'[1].pc = "loop")
            => {r.appointment_id : r \in pass'[1].batch} = WithStatus(calls, "pending")
       /\ (DueCheckStep /\ ~env.test_mode)
            => /\ (pass'[1].pc = "placed") <=>
                     /\ 0 <= evaluated'.hours /\ evaluated'.hours <= HoursBefore
                     /\ StartHour <= evaluated'.hour /\ evaluated'.hour < EndHour
               /\ (pass'[1].pc = "placed") <=> (invoked' # invoked)
               /\ pass'[1].pc # "placed" => ringing' = ringing
               /\ calls' = calls]_vars

C15_Witness ==
    /\ ~env.test_mode
    /\ pass[1].pc = "placed"
    /\ evaluated.hours = HoursBefore

C17_ExampleNineHours ==
    [][(DueCheckStep /\ ~env.test_mode
        /\ evaluated'.appointment_time = 38 /\ evaluated'.now = 15)
          => /\ evaluated'.hours = 9
             /\ evaluated'.hour = 10
             /\ pass'[1].pc = "placed"]_vars

\* C17 amended: that appointment checked at that instant is 23 hours away
\* at local hour 11 (daylight saving time began that morning), and a call
\* is placed.
C17_ExampleDue ==
    [][(DueCheckStep /\ ~env.test_mode
        /\ evaluated'.appointment_time = 38 /\ evaluated'.now = 15)
          => /\ evaluated'.hours = 23
             /\ evaluated'.hour = 11
             /\ pass'[1].pc = "placed"]_vars

C17_Witness ==
    /\ ~env.test_mode
    /\ evaluated.appointment_time = 38 /\ evaluated.now = 15
    /\ evaluated.hours = 23
    /\ pass[1].pc = "placed"

\* C18 as stated: the same appointment checked at 2025-03-09T05:00:00Z
\* (instant 5) with test mode off is within hours_before, and it is skipped
\* by the calling-hours check.
C18_ExampleOutsideHours ==
    [][(DueCheckStep /\ ~env.test_mode
        /\ evaluated'.appointment_time = 38 /\ evaluated'.now = 5)
          => /\ pass'[1].pc # "placed"
             /\ evaluated'.hours <= HoursBefore
             /\ Eligibility(FALSE, evaluated'.hours, evaluated'.hour) = "outside_hours"]_vars

\* C18 amended: the same appointment checked at that instant is 34 hours
\* away by the loop's computation, at local hour 0; no call is placed, and
\* it is the reminder-window check that skips the record, before the
\* calling-hours check.
C18_ExampleNotDue ==
    [][(DueCheckStep /\ ~env.test_mode
        /\ evaluated'.appointment_time = 38 /\ evaluated'.now = 5)
          => /\ pass'[1].pc # "placed"
             /\ invoked' = invoked
             /\ evaluated'.hours = 34
             /\ evaluated'.hour = 0
             /\ Eligibility(FALSE, evaluated'.hours, evaluated'.hour) = "not_due"]_vars

C18_Witness ==
    /\ ~env.test_mode
    /\ evaluated.appointment_time = 38 /\ evaluated.now = 5
    /\ evaluated.hours = 34
    /\ pass[1].pc = "idle"
    /\ invoked[1] = 0

\* The rows of status s whose timestamp in column col is the latest.
NewestBy(rows, s, col) ==
    {a \in WithStatus(rows, s) : \A b \in WithStatus(rows, s) : rows[b][col] <= rows[a][col]}

C20_TwoInFlightMisattribute ==
    (\A a \in Appts : /\ talking[a] > 0
                      /\ calls[a].status = "in_progress"
                      /\ calls[a].last_attempt_at # 0) =>
        \E session \in Appts : \E picked \in Appts \ {session} :
            /\ ContextAppointment(calls, 0, TRUE) = {picked}
            /\ ChatEndedPicks(calls, "outbound", TRUE) = {picked}

C20_Witness ==
    /\ last.op = "answered"
    /\ \A a \in Appts : talking[a] > 0 /\ calls[a].status = "in_progress"
    /\ \E picked \in Appts \ {last.a} :
         /\ ContextAppointment(calls, 0, env.supabase) = {picked}
         /\ ChatEndedPicks(calls, "outbound", env.supabase) = {picked}

\* C25: whatever happens to a record of the batch (skipped, unreadable
\* time or timezone, call placed and written, store write raising), the pass
\* goes on with exactly the records not yet processed, and returns only when
\* none is left.
C25_PerRecordIsolation ==
    [][(pass[1].pc \in {"loop", "placed"} /\ pass'[1] # pass[1] /\ pass'[1].pc # "placed")
          => \E rec \in pass[1].batch :
                /\ pass[1].pc = "placed" => rec = pass[1].cur
                /\ pass'[1].batch = pass[1].batch \ {rec}
                /\ pass'[1].pc = (IF pass[1].batch \ {rec} = {} THEN "idle" ELSE "loop")]_vars

C25_Witness ==
    /\ last.op = "placed"
    /\ pass[1].pc = "placed"
    /\ \E b \in Appts \ {last.a} :
         /\ invoked[b] = 1
         /\ calls[b].status = "pending"
         /\ calls[b].call_attempts = 0

\* C27: a pass places a call only for a record that is pending at that
\* moment, and writes calling only over pending.
C27_DialsOnlyPending ==
    [][/\ (pass[1].pc = "loop" /\ pass'[1].pc = "placed")
            => calls[pass'[1].cur.appointment_id].status = "pending"
       /\ \A a \in Appts :
            (last'.op = "write_calling" /\ last'.a = a /\ calls'[a] # calls[a])
                => calls[a].status = "pending"]_vars

\* C28: an appointment never has two calls placed and not yet reported ended.
C28_OneCallOutstanding ==
    \A a \in Appts : ringing[a] + talking[a] <= 1

\* C29: no step takes a row from in_progress to calling.
C29_NoRegressToCalling ==
    [][\A a \in Appts :
          calls[a].status = "in_progress" => calls'[a].status # "calling"]_vars

\* C30: with passes one at a time and no reschedule, call_attempts never
\* exceeds 3, at most 3 calls are placed for an appointment, and a row with
\* call_attempts = 3 whose last attempt has just failed is failed.
C30_BoundedRetries ==
    \A a \in Appts :
        /\ calls[a].call_attempts <= 3
        /\ invoked[a] <= 3
        /\ (last.op \in {"write_failure", "twilio_failure"} /\ last.a = a
               /\ calls[a].call_attempts = 3) => calls[a].status = "failed"

\* C21: twilio_status_callback answers every request with a normal response:
\* whatever the input and whatever raised, the status code is 200.
C21_CallbackAlwaysAcknowledges == reply.handler = "twilio-status" => reply.code = 200

C21_Witness ==
    /\ reply = Response("twilio-status", 200, "store_error")
    /\ env.supabase
    /\ calls[1].status = "calling"

\* C22: hume_webhook_handler answers every event with its acknowledgment,
\* whatever failed while the event was processed.
C22_WebhookAlwaysAcknowledges == reply.handler = "hume-webhook" => reply.code = 200

\* C23: a status callback without appointment_id, or with a CallStatus the
\* handler has no branch for, writes no field of any row.
C23_MalformedCallbackWritesNothing ==
    [][last'.op = "twilio_ignored" => calls' = calls]_vars

C23_Witness ==
    /\ last = L("twilio_ignored", 1, 0, "none")
    /\ reply = Response("twilio-status", 200, "ok")
    /\ calls[1].status = "calling"
    /\ ringing[1] = 1

\* C24: while the service runs without a store client, no operation writes
\* the table or places a call, no dispatcher pass gets past its entry, the
\* status callback answers with a warning and never fails on the store, the
\* context lookup returns a result, and a webhook event fails only if the
\* control plane does.
C24_NoStoreIsNoOp ==
    [][~env'.supabase =>
          /\ ~env.supabase => (calls' = calls /\ invoked' = invoked)
          /\ pass'[1] = IdlePass
          /\ reply'.note # "store_error"
          /\ reply'.handler = "twilio-status" /\ reply'.note # "form_error"
                 => reply'.note \in {"no appointment_id", "supabase unavailable"}
          /\ reply'.code = 500 => reply'.note = "control_plane_error"
          /\ \A s \in Appts \cup {0} :
                /\ ContextAppointment(calls', s, env'.supabase) = {s}
                /\ ReminderContext(calls', s, env'.supabase, TRUE) = "Database not available"]_vars

C24_Witness ==
    /\ ~env.supabase
    /\ reply = Response("twilio-status", 200, "supabase unavailable")
    /\ calls[1].status = "calling"
    /\ talking[1] = 1

\* C26: every reminder row created by the booking flow eventually has a
\* terminal status, given passes in every hour and callbacks for every call.
C26_EventuallyTerminal ==
    \A a \in Appts : calls[a].present ~> (calls[a].status \in TerminalStatuses)

====
